---- MODULE Spec2Model ----
(***************************************************************************)
(* A model of uvw::StreamHandle (src/uvw/stream.hpp): the duplex stream    *)
(* built on the libuv engine.  One stream handle is modelled together with *)
(* the part of the engine it talks to: the read registration, the write    *)
(* queue, the shutdown request and the pending incoming connection.        *)
(*                                                                         *)
(* `events` is the sequence of events published on the stream, as a        *)
(* subscriber of every event type observes it.  Each entry carries the     *)
(* event's payload (len for Data, code for Error) and, as provenance that  *)
(* the program itself does not store, the operation that published it      *)
(* (src) and the read session or the request it belongs to (id).           *)
(*                                                                         *)
(* publish() is the last statement of every handler of the file, so an     *)
(* operation a subscriber calls from inside a handler is modelled as the   *)
(* same operation called right after it.                                   *)
(***************************************************************************)
EXTENDS Integers, Sequences, FiniteSets, TLC

\* ---------------------------------------------------------------- bounds
MaxChunks == 3        \* read callbacks the engine delivers
MaxReadCalls == 2     \* calls of read()
MaxStopCalls == 2     \* calls of stop()
SuggestedSize == 6    \* the size the allocator reserves for a read chunk
MaxWrites == 2        \* calls of write()
MaxShutdowns == 1     \* calls of shutdown()
MaxWriteLen == 2      \* length of a written buffer
MaxFailures == 1      \* write and shutdown requests the engine fails
MaxListenCalls == 2   \* calls of listen()
MaxConns == 2         \* listen callbacks the engine delivers
MaxAccepts == 3       \* calls of accept()
MaxTries == 3         \* calls of tryWrite()
MaxBlockings == 2     \* calls of blocking()
MaxActivity == 3      \* calls and engine callbacks, all sides together

\* ------------------------------------------------------------- constants
UV_EOF == -4095
\* native error codes the engine reports (ECONNRESET, EPIPE)
ErrCodes == {-104, -32}
UV_EALREADY == -114
UV_EAGAIN == -11
\* codes a native call is refused with at issue time (ENOTCONN)
IssueErrCodes == {-107}
\* codes a queued request is completed with when it fails (EPIPE)
CompletionErrCodes == {-32}

\* the outcomes the engine hands to the read callback: the EOF sentinel, an
\* error code, zero (nothing to read now: EAGAIN) or a byte count that fits
\* the buffer the allocator reserved
ChunkSizes == {1, 4, SuggestedSize}
ReadOutcomes == {UV_EOF} \cup ErrCodes \cup {0} \cup ChunkSizes

VARIABLES
    events,      \* events published on the stream, in publication order
    reading,     \* engine: the stream has an active read registration
    session,     \* number of read() calls that started reading
    delivered,   \* engine: the chunks handed to readCallback, in order
    readCalls,   \* calls of read() so far
    stopCalls,   \* calls of stop() so far
    bufAlloc,    \* read buffers the allocator supplied
    bufFreed,    \* read buffers freed
    reqs,        \* the write and shutdown requests created, by id
                 \*   (kind, own, buf, listeners: what the request holds;
                 \*    state: "pending" in the engine, "ok" or "failed" once
                 \*    destroyed; freed: times its data was freed; len, queued,
                 \*    behind: the call's length, whether the engine accepted
                 \*    it, and for a shutdown the writes queued at its issue;
                 \*    issueErr: the result of the native call; holds,
                 \*    released: the references to the stream its listeners
                 \*    hold, and those they have given back)
    wqueue,      \* engine: ids of the queued writes, oldest first
    sent,        \* engine: bytes of the oldest queued write already written
    peer,        \* the bytes the peer has observed, in order
    shutState,   \* engine: "open", "pending" (shutdown issued) or "shut"
    listening,   \* engine: the stream listens for incoming connections
    pendingConn, \* engine: a connection was signalled and waits for accept()
    connCbs,     \* engine: the statuses handed to listenCallback, in order
    listenCalls, \* calls of listen() so far
    accepts,     \* the calls of accept() so far, each with its native result
    listenFresh, \* a Listen event was published and accept() not called since
    peerEvents,  \* events published on the peer handle given to accept()
    invokes,     \* the native results of the read() and listen() calls
    tries,       \* the calls of tryWrite() so far, each with its native result
    blockings,   \* the calls of blocking() so far, each with its native result
    blockingMode,\* engine: the stream is in blocking mode
    caller,      \* the caller's reference to the stream (refs: 1 or 0) and
                 \*   the number of events published when it was dropped
    streamAlive, \* the stream object has not been destroyed
    lostEvents,  \* events published on the stream after its destruction
    closed       \* the stream closed its own handle

readVars == <<reading, session, delivered, readCalls, stopCalls, bufAlloc, bufFreed>>
writeVars == <<reqs, wqueue, sent, peer, shutState>>
listenVars == <<listening, pendingConn, connCbs, listenCalls, accepts, listenFresh, peerEvents>>
syncVars == <<tries, blockings, blockingMode>>
lifeVars == <<caller, streamAlive, lostEvents, closed>>
vars == <<events, readVars, writeVars, listenVars, syncVars, lifeVars, invokes>>

\* the caller still holds a reference to the stream and can call it
CallerHolds == caller.refs > 0

\* Buggy variant: the error branches close the handle.
closesOnError_Close(type) == type = "Error"

\* what the callbacks and listeners of the stream do to the handle besides
\* publishing the event: nothing, whatever the event
closesOnError(type) == FALSE

Ev(type, len, code, src, id) ==
    [type |-> type, len |-> len, code |-> code, src |-> src, id |-> id]

\* Emitter::publish on the stream
publish(ev) == events' = Append(events, ev)

\* ------------------------------------------------------------- read side

\* Buggy variants of readCallback's branch, used to show what the claims
\* about it rest on.
readCallbackEvent_BufLen(nread, buflen, sess) ==
    IF nread = UV_EOF THEN Ev("End", 0, 0, "readCallback", sess)
    ELSE IF nread > 0 THEN Ev("Data", buflen, 0, "readCallback", sess)
    ELSE Ev("Error", 0, nread, "readCallback", sess)

readCallbackEvent_NoEof(nread, buflen, sess) ==
    IF nread > 0 THEN Ev("Data", nread, 0, "readCallback", sess)
    ELSE Ev("Error", 0, nread, "readCallback", sess)

\* StreamHandle::readCallback, the event it publishes for an outcome
readCallbackEvent(nread, buflen, sess) ==
    IF nread = UV_EOF THEN Ev("End", 0, 0, "readCallback", sess)
    ELSE IF nread > 0 THEN Ev("Data", nread, 0, "readCallback", sess)
    ELSE Ev("Error", 0, nread, "readCallback", sess)

\* Buggy variant of readCallback: the chunk not wrapped in a unique_ptr, so
\* that it is freed only when it is moved into a DataEvent.
readCallbackBuffer_Raw(nread) ==
    [exposed |-> nread # UV_EOF /\ nread > 0,
     freed |-> IF nread # UV_EOF /\ nread > 0 THEN 1 ELSE 0]

\* what readCallback does with the chunk the allocator supplied: it is
\* wrapped in a unique_ptr at once; the pointer is moved into the DataEvent
\* (exposed to the subscribers, freed with the event after publish) when
\* nread is positive, and dies with the callback, unexposed, otherwise
readCallbackBuffer(nread) ==
    [exposed |-> nread # UV_EOF /\ nread > 0, freed |-> 1]

\* The engine stops delivering chunks by itself after EOF and after a read
\* error; an outcome of zero or a byte count leaves the registration active.
EngineStopsAfter(nread) == nread < 0

\* The engine allocates a buffer of SuggestedSize (allocCallback) and calls
\* readCallback with an outcome.  The buffer is owned by `data` and freed at
\* the end of the callback, or moved into the Data event and freed with it
\* when publish returns.
EngineReadCb(nread) ==
    /\ reading
    /\ Len(delivered) < MaxChunks
    /\ delivered' = Append(delivered,
                           [nread |-> nread, buflen |-> SuggestedSize, sess |-> session,
                            exposed |-> readCallbackBuffer(nread).exposed,
                            freed |-> readCallbackBuffer(nread).freed])
    /\ publish(readCallbackEvent(nread, SuggestedSize, session))
    /\ bufAlloc' = bufAlloc + 1
    /\ bufFreed' = bufFreed + readCallbackBuffer(nread).freed
    /\ reading' = IF EngineStopsAfter(nread) THEN FALSE ELSE reading
    /\ closed' = (closed \/ closesOnError(readCallbackEvent(nread, SuggestedSize, session).type))
    /\ UNCHANGED <<session, readCalls, stopCalls, writeVars, listenVars, syncVars,
                   caller, streamAlive, lostEvents, invokes>>

\* Handle::invoke: call the primitive, publish Error when it fails
invokeEvent(err, src, id) == Ev("Error", 0, err, src, id)

\* StreamHandle::read: uv_read_start through Handle::invoke
Read(err) ==
    /\ CallerHolds
    /\ readCalls < MaxReadCalls
    /\ readCalls' = readCalls + 1
    /\ invokes' = Append(invokes, [op |-> "read", err |-> err])
    /\ err # 0 => reading       \* the engine refuses only a second start
    /\ IF err = 0
       THEN /\ reading' = TRUE
            /\ session' = session + 1
            /\ UNCHANGED <<events, closed>>
       ELSE /\ publish(invokeEvent(err, "read", session))
            /\ closed' = (closed \/ closesOnError("Error"))
            /\ UNCHANGED <<reading, session>>
    /\ UNCHANGED <<delivered, stopCalls, bufAlloc, bufFreed, writeVars, listenVars,
                   syncVars, caller, streamAlive, lostEvents>>

\* Buggy variant of stop(): the primitive of read() invoked.
stopPrimitive_Start == "uv_read_start"

\* the primitive stop() invokes
stopPrimitive == "uv_read_stop"

\* StreamHandle::stop: uv_read_stop through Handle::invoke.  The engine
\* cancels the read registration, if there is one, and returns success in
\* either case, so that invoke publishes nothing.
Stop ==
    /\ CallerHolds
    /\ stopCalls < MaxStopCalls
    /\ stopCalls' = stopCalls + 1
    /\ reading' = (stopPrimitive # "uv_read_stop")
    /\ UNCHANGED <<events, session, delivered, readCalls, bufAlloc, bufFreed, writeVars,
                   listenVars, syncVars, lifeVars, invokes>>


\* ------------------------------------------------------------ write side

\* Request::defaultCallback<E>: the event a request publishes on itself when
\* the engine completes it with `status`
defaultCallback(E, status) ==
    IF status # 0 THEN [type |-> "Error", code |-> status]
    ELSE [type |-> E, code |-> 0]

\* Buggy variant of the subscriptions write() registers: Error left out.
WriteListeners_NoError == {"Write"}

\* the once<> subscriptions write() registers on its request
WriteListeners == {"Error", "Write"}

\* the once<> subscriptions shutdown() registers on its request
ShutdownListeners == {"Error", "Shutdown"}

\* Buggy variant: the buffer descriptor built with a length one short.
WriteBuf_Short(id, len) == [k \in 1..(len - 1) |-> <<id, k>>]

\* uv_buf_init(data, len): the bytes write() hands to the engine; byte k of
\* the buffer of write `id` is <<id, k>>
WriteBuf(id, len) == [k \in 1..len |-> <<id, k>>]

\* the listener of write() and shutdown(): ptr->publish(event), run when the
\* request publishes an event of a type it was subscribed to
forward(req, id, ev) ==
    IF ev.type \in req.listeners
    THEN Append(events, Ev(ev.type, 0, ev.code, req.kind, id))
    ELSE events

\* Buggy variant: the listener captures the raw pointer `this`.
ListenerRefs_Raw(listeners) == 0

\* the strong references to the stream a request holds: the listener
\* captures ptr = shared_from_this(), and a copy of it is stored with each
\* subscription
ListenerRefs(listeners) == Cardinality(listeners)

\* Buggy variant: data.get() instead of data.release(), so that the
\* unique_ptr frees an owned buffer when write() returns.
FreedAtReturn_Get(own) == IF own THEN 1 ELSE 0

\* the times write() itself frees the data before it returns: data.release()
\* hands an owned buffer to the request, a borrowed one is a plain pointer
FreedAtReturn(own) == 0

\* the request is destroyed: the deleter of an owning write frees the data,
\* and the subscriptions go, with the references to the stream they hold
destroyed(req, state) ==
    [req EXCEPT !.state = state,
                !.freed = IF req.kind = "write" /\ req.own THEN @ + 1 ELSE @,
                !.released = @ + req.holds,
                !.holds = 0]

\* the stream object is referenced by the caller or by a request
StillReferenced(c, rs) == c.refs > 0 \/ \E id \in 1..Len(rs) : rs[id].holds > 0

\* the events a forwarded event adds to those published on a destroyed stream
lost(req, ev) == IF ev.type \in req.listeners /\ ~streamAlive THEN 1 ELSE 0

\* the requests of a kind created so far
RequestsOf(kind) == {id \in 1..Len(reqs) : reqs[id].kind = kind}

\* the engine may still fail a request (a bound of the model)
MayFail == Cardinality({id \in 1..Len(reqs) : reqs[id].state = "failed"}) < MaxFailures

\* StreamHandle::write, the four overloads: own (ownership of the data is
\* transferred) and send (a handle is attached: uv_write2 instead of
\* uv_write; the request keeps no trace of it).  The request is created,
\* subscribed, and issued through Request::invoke: a native error is
\* published on the request at once, which is then destroyed; otherwise the
\* request is left to the engine.
Write(own, send, len, err) ==
    /\ CallerHolds
    /\ Cardinality(RequestsOf("write")) < MaxWrites
    /\ err # 0 => MayFail
    /\ LET id == Len(reqs) + 1
           req == [kind |-> "write", own |-> own, len |-> len,
                   buf |-> WriteBuf(id, len), listeners |-> WriteListeners,
                   state |-> "pending", freed |-> FreedAtReturn(own),
                   queued |-> (err = 0), behind |-> 0, issueErr |-> err,
                   holds |-> ListenerRefs(WriteListeners), released |-> 0]
       IN IF err # 0
          THEN /\ events' = forward(req, id, [type |-> "Error", code |-> err])
               /\ reqs' = Append(reqs, destroyed(req, "failed"))
               /\ closed' = (closed \/ closesOnError("Error"))
               /\ UNCHANGED wqueue
          ELSE /\ reqs' = Append(reqs, req)
               /\ wqueue' = Append(wqueue, id)
               /\ UNCHANGED <<events, closed>>
    /\ UNCHANGED <<sent, peer, shutState, readVars, listenVars, syncVars,
                   caller, streamAlive, lostEvents, invokes>>

\* Buggy variant of shutdown(): the Shutdown event published at issue time.
ShutdownIssued_Early(id) == Append(events, Ev("Shutdown", 0, 0, "shutdown", id))

\* what shutdown() itself publishes on the stream when the native call was
\* accepted: nothing, the event comes with the completion
ShutdownIssued(id) == events

\* Buggy variant of shutdown(): the read registration cancelled as well.
shutdownReading_Stop(r) == FALSE

\* the read registration after shutdown(), which touches the outgoing
\* direction only: as it was
shutdownReading(r) == r

\* StreamHandle::shutdown: a ShutdownReq is created, subscribed, and issued
\* through Request::invoke.  The engine refuses a second shutdown.
Shutdown(err) ==
    /\ CallerHolds
    /\ Cardinality(RequestsOf("shutdown")) < MaxShutdowns
    /\ shutState # "open" => err # 0
    /\ err # 0 => MayFail
    /\ LET id == Len(reqs) + 1
           req == [kind |-> "shutdown", own |-> FALSE, len |-> 0,
                   buf |-> <<>>, listeners |-> ShutdownListeners,
                   state |-> "pending", freed |-> 0,
                   queued |-> (err = 0), behind |-> Len(wqueue), issueErr |-> err,
                   holds |-> ListenerRefs(ShutdownListeners), released |-> 0]
       IN IF err # 0
          THEN /\ events' = forward(req, id, [type |-> "Error", code |-> err])
               /\ reqs' = Append(reqs, destroyed(req, "failed"))
               /\ closed' = (closed \/ closesOnError("Error"))
               /\ UNCHANGED shutState
          ELSE /\ reqs' = Append(reqs, req)
               /\ shutState' = "pending"
               /\ events' = ShutdownIssued(id)
               /\ UNCHANGED closed
    /\ reading' = shutdownReading(reading)
    /\ UNCHANGED <<wqueue, sent, peer, session, delivered, readCalls, stopCalls,
                   bufAlloc, bufFreed, listenVars, syncVars,
                   caller, streamAlive, lostEvents, invokes>>

\* The engine writes the next byte of the oldest queued write to the peer.
EngineWriteByte ==
    /\ wqueue # <<>>
    /\ shutState # "shut"
    /\ LET id == Head(wqueue) IN
        /\ sent < Len(reqs[id].buf)
        /\ peer' = Append(peer, reqs[id].buf[sent + 1])
    /\ sent' = sent + 1
    /\ UNCHANGED <<events, reqs, wqueue, shutState, readVars, listenVars, syncVars,
                   lifeVars, invokes>>

\* The engine completes the oldest queued write: with status 0 once all its
\* bytes are written, with an error code at any time.  The request publishes
\* the event of defaultCallback<WriteEvent>, the listener forwards it to the
\* stream, and the request is destroyed.
EngineWriteCb(status) ==
    /\ wqueue # <<>>
    /\ LET id == Head(wqueue) IN
        /\ status = 0 => sent = Len(reqs[id].buf)
        /\ status # 0 => MayFail
        /\ events' = forward(reqs[id], id, defaultCallback("Write", status))
        /\ lostEvents' = lostEvents + lost(reqs[id], defaultCallback("Write", status))
        /\ closed' = (closed \/ closesOnError(defaultCallback("Write", status).type))
        /\ reqs' = [reqs EXCEPT ![id] =
                        destroyed(@, IF status = 0 THEN "ok" ELSE "failed")]
    /\ streamAlive' = (streamAlive /\ StillReferenced(caller, reqs'))
    /\ wqueue' = Tail(wqueue)
    /\ sent' = 0
    /\ UNCHANGED <<peer, shutState, readVars, listenVars, syncVars, caller, invokes>>

\* the pending shutdown request, if any
ShutdownPending == {id \in 1..Len(reqs) :
                      reqs[id].kind = "shutdown" /\ reqs[id].state = "pending"}

\* The engine completes the shutdown once the write queue has drained.
EngineShutdownCb(status) ==
    /\ shutState = "pending"
    /\ wqueue = <<>>
    /\ status # 0 => MayFail
    /\ \E id \in ShutdownPending :
        /\ events' = forward(reqs[id], id, defaultCallback("Shutdown", status))
        /\ lostEvents' = lostEvents + lost(reqs[id], defaultCallback("Shutdown", status))
        /\ closed' = (closed \/ closesOnError(defaultCallback("Shutdown", status).type))
        /\ reqs' = [reqs EXCEPT ![id] =
                        destroyed(@, IF status = 0 THEN "ok" ELSE "failed")]
    /\ streamAlive' = (streamAlive /\ StillReferenced(caller, reqs'))
    /\ shutState' = IF status = 0 THEN "shut" ELSE "open"
    /\ UNCHANGED <<wqueue, sent, peer, readVars, listenVars, syncVars, caller, invokes>>

\* The caller drops its reference to the stream; the stream object is
\* destroyed unless a request still refers to it.
DropRef ==
    /\ CallerHolds
    /\ caller' = [refs |-> 0, droppedAt |-> Len(events)]
    /\ streamAlive' = (streamAlive /\ StillReferenced(caller', reqs))
    /\ UNCHANGED <<events, readVars, writeVars, listenVars, syncVars, lostEvents,
                   closed, invokes>>

\* the write side with the caller free to drop the stream; the length of
\* the buffers plays no part in the lifetimes
NextLife ==
    \/ \E own \in BOOLEAN, err \in {0} \cup IssueErrCodes : Write(own, FALSE, 1, err)
    \/ \E err \in {0} \cup IssueErrCodes : Shutdown(err)
    \/ EngineWriteByte
    \/ \E status \in {0} \cup CompletionErrCodes : EngineWriteCb(status)
    \/ \E status \in {0} \cup CompletionErrCodes : EngineShutdownCb(status)
    \/ DropRef

NextWrite ==
    \/ \E own \in BOOLEAN, send \in BOOLEAN, len \in 1..MaxWriteLen,
          err \in {0} \cup IssueErrCodes : Write(own, send, len, err)
    \/ \E err \in {0} \cup IssueErrCodes : Shutdown(err)
    \/ EngineWriteByte
    \/ \E status \in {0} \cup CompletionErrCodes : EngineWriteCb(status)
    \/ \E status \in {0} \cup CompletionErrCodes : EngineShutdownCb(status)

\* ------------------------------------------------- synchronous operations

\* Buggy variant of tryWrite: the native result returned as it is.
tryWriteReturn_Raw(bw) == bw

\* what tryWrite returns for the native result bw
tryWriteReturn(bw) == IF bw < 0 THEN 0 ELSE bw

\* Buggy variant of tryWrite: the buffer taken out of the unique_ptr with
\* release(), so that nothing frees it.
tryWriteFreed_Release(bw) == 0

\* the times the buffer is freed by the time tryWrite returns: data is a
\* unique_ptr taken by value, only get() is applied to it, and it dies with
\* the call whatever the native result
tryWriteFreed(bw) == 1

\* the results uv_try_write may give for a buffer of len bytes: a count up
\* to len, or an error; nothing is written while requests are queued
TryResults(len) ==
    IF wqueue # <<>> THEN {UV_EAGAIN} ELSE {UV_EAGAIN} \cup CompletionErrCodes \cup 0..len

\* StreamHandle::tryWrite: the bytes written reach the peer at once; no
\* request is created
TryWrite(len, native) ==
    /\ CallerHolds
    /\ Len(tries) < MaxTries
    /\ native \in TryResults(len)
    /\ LET id == Len(tries) + 1
       IN /\ tries' = Append(tries, [len |-> len, native |-> native,
                                     ret |-> tryWriteReturn(native),
                                     freed |-> tryWriteFreed(native),
                                     at |-> Len(events)])
          /\ peer' = peer \o [k \in 1..(IF native > 0 THEN native ELSE 0) |-> <<-id, k>>]
          /\ IF native < 0
             THEN /\ publish(Ev("Error", 0, native, "tryWrite", id))
                  /\ closed' = (closed \/ closesOnError("Error"))
             ELSE UNCHANGED <<events, closed>>
    /\ UNCHANGED <<reqs, wqueue, sent, shutState, readVars, listenVars, blockings,
                   blockingMode, caller, streamAlive, lostEvents, invokes>>

\* Buggy variant of blocking: success reported whatever the native result.
blockingReturn_True(native) == TRUE

\* what blocking returns for the result of uv_stream_set_blocking
blockingReturn(native) == (0 = native)

\* StreamHandle::blocking: the native call and nothing else
Blocking(enable, native) ==
    /\ CallerHolds
    /\ Len(blockings) < MaxBlockings
    /\ blockings' = Append(blockings, [enable |-> enable, native |-> native,
                                       ret |-> blockingReturn(native),
                                       at |-> Len(events)])
    /\ blockingMode' = IF native = 0 THEN enable ELSE blockingMode
    /\ UNCHANGED <<events, readVars, writeVars, listenVars, tries, lifeVars, invokes>>

NextTryWrite ==
    \E len \in 0..MaxWriteLen : \E native \in TryResults(len) : TryWrite(len, native)


\* ----------------------------------------------------------- listen side

\* Buggy variant of listenCallback: the test of the status inverted.
listenCallbackEvent_Inverted(status) ==
    IF status # 0 THEN Ev("Listen", 0, 0, "listenCallback", 0)
    ELSE Ev("Error", 0, status, "listenCallback", 0)

\* StreamHandle::listenCallback, the event it publishes for a status
listenCallbackEvent(status) ==
    IF status # 0 THEN Ev("Error", 0, status, "listenCallback", 0)
    ELSE Ev("Listen", 0, 0, "listenCallback", 0)

\* StreamHandle::listen: uv_listen through Handle::invoke
Listen(err) ==
    /\ CallerHolds
    /\ listenCalls < MaxListenCalls
    /\ listenCalls' = listenCalls + 1
    /\ invokes' = Append(invokes, [op |-> "listen", err |-> err])
    /\ IF err = 0
       THEN /\ listening' = TRUE
            /\ UNCHANGED <<events, closed>>
       ELSE /\ publish(invokeEvent(err, "listen", 0))
            /\ closed' = (closed \/ closesOnError("Error"))
            /\ UNCHANGED listening
    /\ UNCHANGED <<pendingConn, connCbs, accepts, listenFresh, peerEvents, readVars,
                   writeVars, syncVars, caller, streamAlive, lostEvents>>

\* The engine calls listenCallback: with status 0 when it holds a new
\* incoming connection for accept() to claim, with an error code when taking
\* the connection failed.  It signals no further connection while one is
\* waiting to be claimed.
EngineConnectionCb(status) ==
    /\ listening
    /\ ~pendingConn
    /\ Len(connCbs) < MaxConns
    /\ connCbs' = Append(connCbs, status)
    /\ pendingConn' = (status = 0)
    /\ publish(listenCallbackEvent(status))
    /\ listenFresh' = (listenCallbackEvent(status).type = "Listen")
    /\ closed' = (closed \/ closesOnError(listenCallbackEvent(status).type))
    /\ UNCHANGED <<listening, listenCalls, accepts, peerEvents, readVars, writeVars,
                   syncVars, caller, streamAlive, lostEvents, invokes>>

\* uv_accept(server, client): claims the connection waiting on `server`;
\* there is none to claim on a handle that signalled none (EAGAIN)
uv_accept(server, client) ==
    IF server = "stream" /\ client = "peer" /\ pendingConn THEN 0 ELSE UV_EAGAIN

\* Buggy variant of accept(): the two handles passed in the wrong order.
acceptArgs_Swapped == [server |-> "peer", client |-> "stream"]

\* the handles accept(ref) passes to uv_accept: this stream, then ref
acceptArgs == [server |-> "stream", client |-> "peer"]

\* Buggy variant of accept(): invoke called on the handle given as argument.
acceptPublisher_Peer == "peer"

\* the handle accept(ref) calls invoke on, which is the one that publishes
\* the Error event of a failed call: this stream
acceptPublisher == "stream"

\* StreamHandle::accept: uv_accept through Handle::invoke, which publishes
\* Error on this stream when the call fails
Accept ==
    /\ CallerHolds
    /\ Len(accepts) < MaxAccepts
    /\ LET err == uv_accept(acceptArgs.server, acceptArgs.client) IN
        /\ accepts' = Append(accepts, [afterListen |-> listenFresh, err |-> err,
                                       at |-> Len(events)])
        /\ IF err = 0
           THEN /\ pendingConn' = FALSE
                /\ UNCHANGED <<events, peerEvents, closed>>
           ELSE /\ closed' = (closed \/ closesOnError("Error"))
                /\ IF acceptPublisher = "stream"
                   THEN /\ publish(invokeEvent(err, "accept", 0))
                        /\ UNCHANGED peerEvents
                   ELSE /\ peerEvents' = Append(peerEvents, invokeEvent(err, "accept", 0))
                        /\ UNCHANGED events
                /\ UNCHANGED pendingConn
    /\ listenFresh' = FALSE
    /\ UNCHANGED <<listening, listenCalls, connCbs, readVars, writeVars, syncVars,
                   caller, streamAlive, lostEvents, invokes>>

NextListen ==
    \/ \E err \in {0} \cup IssueErrCodes : Listen(err)
    \/ \E status \in {0} \cup ErrCodes : EngineConnectionCb(status)
    \/ Accept

NextRead ==
    \/ \E nread \in ReadOutcomes : EngineReadCb(nread)
    \/ \E err \in {0, UV_EALREADY} : Read(err)
    \/ Stop

\* the calls made and the callbacks delivered so far, all sides together
Activity ==
    readCalls + stopCalls + Len(delivered) + Len(reqs) + listenCalls
        + Len(connCbs) + Len(accepts) + Len(tries) + Len(blockings)

\* a further call or callback is within the bound of the model
Budget == Activity < MaxActivity

\* all the operations of one stream together, a bounded number of them
NextStream ==
    \/ Budget /\ \E nread \in {UV_EOF, 1} \cup CompletionErrCodes : EngineReadCb(nread)
    \/ Budget /\ \E err \in {0, UV_EALREADY} : Read(err)
    \/ Budget /\ Stop
    \/ Budget /\ \E own \in BOOLEAN, err \in {0} \cup IssueErrCodes : Write(own, FALSE, 1, err)
    \/ Budget /\ \E err \in {0} \cup IssueErrCodes : Shutdown(err)
    \/ EngineWriteByte
    \/ \E status \in {0} \cup CompletionErrCodes : EngineWriteCb(status)
    \/ \E status \in {0} \cup CompletionErrCodes : EngineShutdownCb(status)
    \/ Budget /\ \E err \in {0} \cup IssueErrCodes : Listen(err)
    \/ Budget /\ \E status \in {0} \cup CompletionErrCodes : EngineConnectionCb(status)
    \/ Budget /\ Accept
    \/ Budget /\ \E native \in TryResults(1) : TryWrite(1, native)
    \/ Budget /\ \E enable \in BOOLEAN, native \in {0} \cup IssueErrCodes : Blocking(enable, native)

Init ==
    /\ events = <<>>
    /\ reading = FALSE
    /\ session = 0
    /\ delivered = <<>>
    /\ readCalls = 0
    /\ stopCalls = 0
    /\ bufAlloc = 0
    /\ bufFreed = 0
    /\ reqs = <<>>
    /\ wqueue = <<>>
    /\ sent = 0
    /\ peer = <<>>
    /\ shutState = "open"
    /\ listening = FALSE
    /\ pendingConn = FALSE
    /\ connCbs = <<>>
    /\ listenCalls = 0
    /\ accepts = <<>>
    /\ listenFresh = FALSE
    /\ peerEvents = <<>>
    /\ invokes = <<>>
    /\ tries = <<>>
    /\ blockings = <<>>
    /\ blockingMode = FALSE
    /\ caller = [refs |-> 1, droppedAt |-> 0]
    /\ streamAlive = TRUE
    /\ lostEvents = 0
    /\ closed = FALSE

SpecRead == Init /\ [][NextRead]_vars
SpecWrite == Init /\ [][NextWrite]_vars
SpecListen == Init /\ [][NextListen]_vars
SpecLife == Init /\ [][NextLife]_vars
SpecTryWrite == Init /\ [][NextTryWrite]_vars
SpecStream == Init /\ [][NextStream]_vars

Next ==
    \/ NextRead
    \/ NextWrite
    \/ NextListen
    \/ NextTryWrite
    \/ \E enable \in BOOLEAN, native \in {0} \cup IssueErrCodes : Blocking(enable, native)
    \/ DropRef
Spec == Init /\ [][Next]_vars

\* ------------------------------------------------------------ properties

\* the events readCallback published, in order
ReadEvents == SelectSeq(events, LAMBDA e : e.src = "readCallback")

\* the events the requests forwarded to the stream, in order
RequestEvents == SelectSeq(events, LAMBDA e : e.src \in {"write", "shutdown"})

\* the payload of the events, without their provenance
Payload(evs) == [i \in 1..Len(evs) |-> <<evs[i].type, evs[i].len, evs[i].code>>]

\* C1: every chunk handed to readCallback publishes exactly one event on the
\* stream: End for the EOF sentinel, Data for a positive byte count, and the
\* Data event's length is the byte count the engine reported, whatever the
\* allocator reserved.  A stream that called read() once and received a
\* 4-byte chunk and then EOF has published Data(4), End and nothing else.
C1_OneEventPerChunk ==
    /\ Len(ReadEvents) = Len(delivered)
    /\ \A i \in 1..Len(delivered) :
        LET d == delivered[i]
            e == ReadEvents[i]
        IN /\ e.id = d.sess
           /\ d.nread = UV_EOF => e.type = "End"
           /\ d.nread > 0 => e.type = "Data" /\ e.len = d.nread
    /\ (readCalls = 1 /\ [i \in 1..Len(delivered) |-> delivered[i].nread] = <<4, UV_EOF>>)
        => Payload(events) = << <<"Data", 4, 0>>, <<"End", 0, 0>> >>

C1_Witness ==
    /\ readCalls = 1
    /\ [i \in 1..Len(delivered) |-> delivered[i].nread] = <<4, UV_EOF>>
    /\ delivered[1].buflen # 4

\* C2: readCallback publishes Error only for a negative outcome other than
\* the EOF sentinel, carrying that code; a non-negative outcome publishes no
\* Error.
C2_ErrorOnlyWhenNegative ==
    \A i \in 1..Len(delivered) :
        i <= Len(ReadEvents) /\ ReadEvents[i].type = "Error"
            => /\ delivered[i].nread < 0
               /\ delivered[i].nread # UV_EOF
               /\ ReadEvents[i].code = delivered[i].nread

\* the sessions in which the engine reported EOF
EofSessions == {delivered[i].sess : i \in {k \in 1..Len(delivered) : delivered[k].nread = UV_EOF}}

\* C3: a read session that received EOF has published exactly one End, and a
\* Data event published after that End belongs to a later session, one that
\* a new call of read() started.
C3_EndEndsSession ==
    /\ \A s \in EofSessions :
        Cardinality({p \in 1..Len(events) :
            events[p].type = "End" /\ events[p].id = s}) = 1
    /\ \A p \in 1..Len(events), q \in 1..Len(events) :
        (p < q /\ events[p].type = "End" /\ events[q].type = "Data")
            => events[q].id > events[p].id

C3_Witness ==
    \E p \in 1..Len(events), q \in 1..Len(events) :
        p < q /\ events[p].type = "End" /\ events[q].type = "Data"

\* C4: once readCallback has published Error in a read session, no Data event
\* of that session follows, and a session has at most one terminal event
\* (End or Error).
C4_ErrorEndsSession ==
    /\ \A p \in 1..Len(ReadEvents), q \in 1..Len(ReadEvents) :
        (p < q /\ ReadEvents[p].type = "Error" /\ ReadEvents[q].type = "Data")
            => ReadEvents[q].id > ReadEvents[p].id
    /\ \A s \in 1..session :
        Cardinality({p \in 1..Len(ReadEvents) :
            ReadEvents[p].type \in {"End", "Error"} /\ ReadEvents[p].id = s}) <= 1

\* the position in `events` of the event request `id` forwarded (0: none)
EventOf(id) ==
    LET ps == {p \in 1..Len(events) :
                 events[p].src \in {"write", "shutdown"} /\ events[p].id = id}
    IN IF ps = {} THEN 0 ELSE CHOOSE p \in ps : TRUE

Writes == RequestsOf("write")

\* the bytes of write `id` the peer has observed, in order
PeerBytes(id) == SelectSeq(peer, LAMBDA b : b[1] = id)

\* C5: writes complete, and are observed by the peer, in issuance order.  Of
\* two writes the engine accepted and did not fail, the peer observes every
\* byte of the earlier one before any byte of the later one; a write that
\* succeeded delivered exactly its bytes; and the Write events of two writes
\* that succeeded are published in the order the writes were issued.
C5_WritesInOrder ==
    /\ \A i \in Writes :
        reqs[i].state = "ok" =>
            PeerBytes(i) = [k \in 1..reqs[i].len |-> <<i, k>>]
    /\ \A i \in Writes, j \in Writes :
        (i < j /\ reqs[i].queued /\ reqs[i].state # "failed")
            => \A q \in 1..Len(peer) :
                 peer[q][1] = j =>
                    \A k \in 1..reqs[i].len :
                        \E p \in 1..(q - 1) : peer[p] = <<i, k>>
    /\ \A i \in Writes, j \in Writes :
        (i < j /\ reqs[i].state = "ok" /\ reqs[j].state = "ok")
            => /\ EventOf(i) # 0
               /\ EventOf(i) < EventOf(j)
               /\ events[EventOf(i)].type = "Write"
               /\ events[EventOf(j)].type = "Write"

C5_Witness ==
    \E i \in Writes, j \in Writes :
        /\ i < j
        /\ reqs[i].state = "ok" /\ reqs[j].state = "ok"
        /\ reqs[i].len = 2 /\ reqs[j].len = 1
        /\ Len(peer) = 3

\* C6: a Shutdown event is published only after the completion event of every
\* write issued before that shutdown() call.
C6_ShutdownAfterWrites ==
    \A p \in 1..Len(events) :
        events[p].type = "Shutdown" =>
            \A i \in Writes :
                i < events[p].id => (EventOf(i) # 0 /\ EventOf(i) < p)

C6_Witness ==
    \E p \in 1..Len(events) :
        /\ events[p].type = "Shutdown"
        /\ reqs[events[p].id].behind = 2

\* the events request `id` forwarded to the stream
EventsOf(id) == SelectSeq(RequestEvents, LAMBDA e : e.id = id)

\* C7: every call of write() and of shutdown() publishes exactly one event on
\* the stream, its success event or Error: none while the request is pending,
\* and once it is over one Write (resp. Shutdown) if it succeeded, one Error
\* with the native code if it failed, at issue time or later.
C7_OneEventPerRequest ==
    /\ \A id \in 1..Len(reqs) :
        LET evs == EventsOf(id) IN
        /\ reqs[id].state = "pending" => evs = <<>>
        /\ reqs[id].state = "ok" =>
              Len(evs) = 1 /\ evs[1].type = (IF reqs[id].kind = "write"
                                             THEN "Write" ELSE "Shutdown")
        /\ reqs[id].state = "failed" =>
              Len(evs) = 1 /\ evs[1].type = "Error" /\ evs[1].code < 0
    /\ \A p \in 1..Len(RequestEvents) : RequestEvents[p].id \in 1..Len(reqs)

C7_Witness ==
    /\ \E id \in Writes : reqs[id].state = "failed" /\ ~reqs[id].queued
    /\ \E id \in Writes : reqs[id].state = "ok"
    /\ \E id \in RequestsOf("shutdown") : reqs[id].state = "ok"

\* the events listenCallback published, in order
ListenCbEvents == SelectSeq(events, LAMBDA e : e.src = "listenCallback")

\* C9: the step of an accept() call.  It leaves the stream listening and the
\* engine's record of signalled connections alone; it publishes nothing when
\* the native call succeeds and one Error with the native code when it
\* fails; and the first call after a Listen event succeeds.
C9_Accept ==
    [][Len(accepts') = Len(accepts) + 1 =>
        LET a == accepts'[Len(accepts')] IN
        /\ listening' = listening
        /\ connCbs' = connCbs
        /\ a.err = 0 => events' = events
        /\ a.err # 0 => events' = Append(events, Ev("Error", 0, a.err, "accept", 0))
        /\ listenFresh => a.err = 0]_vars

\* a first accept() after a Listen event, a second one that failed, and a
\* Listen event delivered after it
C9_Witness ==
    \E i \in 1..Len(accepts) :
        /\ i + 1 <= Len(accepts)
        /\ accepts[i].afterListen /\ accepts[i].err = 0
        /\ ~accepts[i + 1].afterListen /\ accepts[i + 1].err # 0
        /\ \E p \in 1..Len(events) :
            p > accepts[i + 1].at + 1 /\ events[p].type = "Listen"

\* C10: every listen callback publishes exactly one event: Listen for status
\* zero, otherwise Error with the status; and the stream never shows more
\* Listen events than connections the engine signalled.
C10_ListenCallback ==
    /\ Len(ListenCbEvents) = Len(connCbs)
    /\ \A i \in 1..Len(connCbs) :
        /\ connCbs[i] = 0 => ListenCbEvents[i].type = "Listen"
        /\ connCbs[i] # 0 =>
              ListenCbEvents[i].type = "Error" /\ ListenCbEvents[i].code = connCbs[i]
    /\ Cardinality({p \in 1..Len(events) : events[p].type = "Listen"})
          <= Cardinality({i \in 1..Len(connCbs) : connCbs[i] = 0})

C10_Witness ==
    /\ \E i \in 1..Len(connCbs) : connCbs[i] = 0
    /\ \E i \in 1..Len(connCbs) : connCbs[i] # 0

\* C11: stop() is idempotent.  A call of stop() publishes no event and leaves
\* the stream without a read registration; on a stream that has none (never
\* started, already stopped) it changes nothing at all.  A read registration
\* comes back only through a call of read(), and a Data event is published
\* only while there is one.
C11_StopIdempotent ==
    [][/\ stopCalls' = stopCalls + 1 =>
            /\ events' = events
            /\ ~reading'
            /\ <<session, delivered, readCalls, bufAlloc, bufFreed>>'
                  = <<session, delivered, readCalls, bufAlloc, bufFreed>>
            /\ ~reading => reading' = reading
       /\ (~reading /\ reading') => readCalls' = readCalls + 1
       /\ (Len(events') = Len(events) + 1 /\ events'[Len(events')].type = "Data")
            => reading]_vars

\* stop() called twice in a row on a stream that never started reading
C11_Witness == readCalls = 0 /\ stopCalls = 2

\* C12: tryWrite never returns a negative count.  A negative native result
\* is returned as 0 with exactly one Error event carrying the native code; a
\* non-negative native result is returned unchanged and publishes no event;
\* in both cases no request is created and nothing is queued.
C12_TryWriteNormalised ==
    [][Len(tries') = Len(tries) + 1 =>
         LET t == tries'[Len(tries')]
         IN /\ t.ret >= 0
            /\ t.native < 0 =>
                  /\ t.ret = 0
                  /\ Len(events') = Len(events) + 1
                  /\ SubSeq(events', 1, Len(events)) = events
                  /\ events'[Len(events')].type = "Error"
                  /\ events'[Len(events')].code = t.native
            /\ t.native >= 0 => t.ret = t.native /\ events' = events
            /\ reqs' = reqs /\ wqueue' = wqueue]_vars

\* a failed, a partial and a complete tryWrite have been made
C12_Witness ==
    /\ \E t \in 1..Len(tries) : tries[t].native < 0
    /\ \E t \in 1..Len(tries) : tries[t].native > 0 /\ tries[t].native < tries[t].len
    /\ \E t \in 1..Len(tries) : tries[t].native = tries[t].len /\ tries[t].len > 0

\* C19: tryWrite consumes its buffer: it is freed exactly once by the time
\* the call returns, whatever the native result (all bytes, fewer bytes, no
\* byte, or a failure).
C19_TryWriteConsumes ==
    \A t \in 1..Len(tries) : tries[t].freed = 1

\* a tryWrite of each kind has returned: failed, none, some, and all of the
\* bytes written
C19_Witness ==
    /\ \E t \in 1..Len(tries) : tries[t].native < 0
    /\ \E t \in 1..Len(tries) : tries[t].native = 0 /\ tries[t].len > 0
    /\ \E t \in 1..Len(tries) : tries[t].native > 0 /\ tries[t].native < tries[t].len

\* C13: the buffer of an ownership-transferring write is freed exactly
\* once, and only when the write has completed, successfully or not, a
\* failure at issue included: while the request is pending it has not been
\* freed, afterwards it has been freed once.  The buffer of a borrowing
\* write is never freed.
C13_OwnedBufferFreedOnce ==
    \A id \in Writes :
        /\ reqs[id].state = "pending" => reqs[id].freed = 0
        /\ reqs[id].state # "pending" =>
              reqs[id].freed = (IF reqs[id].own THEN 1 ELSE 0)

\* an owning write has completed, and another has failed at issue
C13_Witness ==
    \E i, j \in Writes :
        /\ reqs[i].own /\ reqs[i].state = "ok" /\ reqs[i].freed = 1
        /\ reqs[j].own /\ reqs[j].issueErr # 0 /\ reqs[j].freed = 1

\* the step is a call whose native primitive failed with code err
FailedCall(err) ==
    \/ /\ Len(invokes') = Len(invokes) + 1
       /\ invokes'[Len(invokes')].err = err
    \/ /\ Len(accepts') = Len(accepts) + 1
       /\ accepts'[Len(accepts')].err = err
    \/ /\ Len(reqs') = Len(reqs) + 1
       /\ reqs'[Len(reqs')].issueErr = err
    \/ /\ Len(tries') = Len(tries) + 1
       /\ tries'[Len(tries')].native = err

\* the step is a call of blocking() whose native primitive failed with err
FailedBlocking(err) ==
    /\ Len(blockings') = Len(blockings) + 1
    /\ blockings'[Len(blockings')].native = err

\* the step publishes one event on the stream: Error, carrying err
PublishesError(err) ==
    /\ Len(events') = Len(events) + 1
    /\ SubSeq(events', 1, Len(events)) = events
    /\ events'[Len(events')].type = "Error"
    /\ events'[Len(events')].code = err

\* the native error codes (all negative)
NativeErrors == ErrCodes \cup IssueErrCodes \cup CompletionErrCodes \cup {UV_EALREADY, UV_EAGAIN}

\* C14, as stated: a failure at the native call boundary of listen, accept,
\* read, write, shutdown, tryWrite or blocking is surfaced as an Error event
\* on the stream carrying the native code.
C14_AllFailuresAsEvents ==
    [][\A err \in NativeErrors :
          (FailedCall(err) \/ FailedBlocking(err)) => PublishesError(err)]_vars

\* C14, amended: a failure at the native call boundary of listen, accept,
\* read, write, shutdown or tryWrite is surfaced as one Error event on the
\* stream carrying the native code; a failure of blocking publishes no
\* event and is reported by the value returned, false (true on success).
C14_FailuresSurfaced ==
    [][/\ \A err \in NativeErrors : FailedCall(err) => PublishesError(err)
       /\ \A err \in NativeErrors :
             FailedBlocking(err) =>
                 /\ events' = events
                 /\ blockings'[Len(blockings')].ret = FALSE
       /\ FailedBlocking(0) => blockings'[Len(blockings')].ret = TRUE /\ events' = events]_vars

\* blocking has failed and has succeeded, and another call has failed with
\* its Error event
C14_Witness ==
    /\ \E b \in 1..Len(blockings) : blockings[b].native # 0 /\ ~blockings[b].ret
    /\ \E b \in 1..Len(blockings) : blockings[b].native = 0 /\ blockings[b].ret
    /\ \E e \in 1..Len(events) : events[e].type = "Error" /\ events[e].src # "readCallback"

\* C15: while a write or shutdown request is pending the stream object is
\* alive, even after the caller dropped its reference, so no event is
\* published on a destroyed stream; every reference a request holds on the
\* stream is held while the request is pending and released once, at its
\* completion.
C15_StreamOutlivesRequests ==
    /\ lostEvents = 0
    /\ \A id \in 1..Len(reqs) :
          /\ reqs[id].holds + reqs[id].released = Cardinality(reqs[id].listeners)
          /\ reqs[id].state = "pending" => streamAlive /\ reqs[id].released = 0
          /\ reqs[id].state # "pending" => reqs[id].holds = 0

\* the caller dropped the stream while a request was pending, the event of
\* the request was published afterwards, and the stream is gone with it
C15_Witness ==
    /\ caller.refs = 0
    /\ ~streamAlive
    /\ \E e \in 1..Len(events) :
          e > caller.droppedAt /\ events[e].src \in {"write", "shutdown"}

\* the step is the failure of request id at its completion
FailedCompletion(id) ==
    /\ id \in 1..Len(reqs)
    /\ reqs[id].state = "pending"
    /\ reqs'[id].state = "failed"

\* the step leaves every request but id as it was
OnlyRequest(id) ==
    \A other \in (1..Len(reqs)) \ {id} : reqs'[other] = reqs[other]

\* C16: no error path closes or tears down the stream.  After a failed
\* accept() the stream is listening as before; after a failed write() or
\* shutdown(), at issue or at completion, the stream is open, and only the
\* failed request is destroyed; a read failure leaves the listen side and
\* the write side as they were.
C16_ErrorsLeaveStream ==
    [][/\ ~closed'
       /\ (Len(accepts') = Len(accepts) + 1 /\ accepts'[Len(accepts')].err # 0) =>
             /\ <<listening, pendingConn, connCbs>>' = <<listening, pendingConn, connCbs>>
             /\ readVars' = readVars /\ writeVars' = writeVars
       /\ (Len(reqs') = Len(reqs) + 1 /\ reqs'[Len(reqs')].issueErr # 0) =>
             /\ reqs'[Len(reqs')].state = "failed"
             /\ OnlyRequest(Len(reqs'))
             /\ <<wqueue, sent, peer, shutState>>' = <<wqueue, sent, peer, shutState>>
             /\ readVars' = readVars /\ listenVars' = listenVars
       /\ \A id \in 1..Len(reqs) : FailedCompletion(id) =>
             /\ OnlyRequest(id)
             /\ shutState' = IF reqs[id].kind = "shutdown" THEN "open" ELSE shutState
             /\ peer' = peer
             /\ readVars' = readVars /\ listenVars' = listenVars
       /\ (Len(delivered') = Len(delivered) + 1
             /\ delivered'[Len(delivered')].nread < 0
             /\ delivered'[Len(delivered')].nread # UV_EOF) =>
             listenVars' = listenVars /\ writeVars' = writeVars]_vars

\* a listening stream on which an accept() and a request have failed
C16_Witness ==
    /\ listening /\ ~closed
    /\ \E a \in 1..Len(accepts) : accepts[a].err # 0
    /\ \E id \in 1..Len(reqs) : reqs[id].state = "failed"

\* C17: every buffer the allocator supplied for a read chunk is freed
\* exactly once by the read callback path, whatever the outcome; it is
\* exposed to the subscribers, in the Data event, when the outcome is
\* positive, and never when the outcome is EOF or an error.
C17_ReadBufferFreedOnce ==
    /\ bufAlloc = Len(delivered)
    /\ bufFreed = bufAlloc
    /\ \A i \in 1..Len(delivered) :
          /\ delivered[i].freed = 1
          /\ delivered[i].exposed <=> delivered[i].nread > 0
          /\ delivered[i].exposed <=> ReadEvents[i].type = "Data"

\* a chunk, an EOF and a read error have been delivered
C17_Witness ==
    /\ \E i \in 1..Len(delivered) : delivered[i].nread > 0
    /\ \E i \in 1..Len(delivered) : delivered[i].nread = UV_EOF
    /\ \E i \in 1..Len(delivered) : delivered[i].nread \in ErrCodes

\* the step is a call of shutdown()
ShutdownCall ==
    /\ Len(reqs') = Len(reqs) + 1
    /\ reqs'[Len(reqs')].kind = "shutdown"

\* the step is the completion of a shutdown request, with either event
ShutdownCompletion ==
    \E id \in RequestsOf("shutdown") :
        reqs[id].state = "pending" /\ reqs'[id].state # "pending"

\* C18: shutdown() acts on the outgoing direction only: the call and the
\* completion of the request, with Shutdown or with Error, leave the read
\* session as it was, and while the registration is active the read
\* callback goes on being delivered whatever the state of the shutdown.
C18_ShutdownLeavesRead ==
    [][/\ (ShutdownCall \/ ShutdownCompletion) => readVars' = readVars
       /\ (reading /\ Budget /\ Len(delivered) < MaxChunks) =>
             ENABLED (\E nread \in {UV_EOF, 1} : EngineReadCb(nread))]_vars

\* the stream has been shut down, and a chunk was delivered afterwards
C18_Witness ==
    /\ shutState = "shut"
    /\ \E i, j \in 1..Len(events) :
          i < j /\ events[i].type = "Shutdown" /\ events[j].type = "Data"

\* C20: the Error event of a failed accept() is published on the stream
\* accept() was called on, never on the peer handle given as argument; the
\* peer handle gets no event from accept(), failed or not.
C20_AcceptErrorOnListener ==
    /\ peerEvents = <<>>
    /\ \A a \in 1..Len(accepts) :
          accepts[a].err # 0 =>
              /\ Len(events) > accepts[a].at
              /\ events[accepts[a].at + 1].type = "Error"
              /\ events[accepts[a].at + 1].src = "accept"
              /\ events[accepts[a].at + 1].code = accepts[a].err
    /\ Cardinality({e \in 1..Len(events) : events[e].src = "accept"})
          = Cardinality({a \in 1..Len(accepts) : accepts[a].err # 0})

\* an accept() has failed and another has succeeded
C20_Witness ==
    /\ \E a \in 1..Len(accepts) : accepts[a].err # 0
    /\ \E a \in 1..Len(accepts) : accepts[a].err = 0

====
